---- MODULE Spec2Model ----
(***************************************************************************)
(* Model of mysql-slow-sql-webhook (src/main.go): main's supervisor loop,  *)
(* the tailSlowLog worker goroutine, the per-line segmenter loop, the      *)
(* processSlowQuery field extraction / threshold test and the webhook      *)
(* dispatch.                                                               *)
(*                                                                         *)
(* Times are in thousandths of a second (1.5 s = 1500).  A line of the log *)
(* file is identified by its position in the file; its text is one of the  *)
(* strings of LineAlphabet.  Each regular expression of the program is     *)
(* modelled by its result on every string of LineAlphabet.                 *)
(***************************************************************************)
EXTENDS Integers, Sequences, FiniteSets, TLC

VARIABLES
    webhookURL,          \* flag -u  (main.go:14,143)
    slowQueryThreshold,  \* flag -s  (main.go:16,145), thousandths of a second
    isTest,              \* flag -t  (main.go:17,146)
    readHistory,         \* flag -r  (main.go:18,147)
    mpc,                 \* position of main: "check", "spawn", "select", "exit"
    wpc,                 \* position of each tailSlowLog goroutine
    opened,              \* opened[w]: tail.TailFile returned without error in w
    histLen,             \* histLen[w]: lines the file held when w opened it
    offset,              \* offset[w]: lines the tail of w has delivered
    logLines,            \* logLines[w]: pending buffer (positions in the file)
    fileExists,          \* the slow log file exists and is readable
    file,                \* the lines of the slow log file
    budget,              \* lines the server may still write (bounds the run)
    calls,               \* history: every processSlowQuery call, in order
    notifications,       \* history: every sendWebhookNotification call, in order
    postFailed           \* a POST has returned an error (main.go:42-43)

vars == <<webhookURL, slowQueryThreshold, isTest, readHistory, mpc, wpc, opened,
          histLen, offset, logLines, fileExists, file, budget, calls,
          notifications, postFailed>>

\* ------------------------------------------------------------------ bounds
MaxLines == 3        \* lines ever written to the log file
MaxWorkers == 2      \* tailSlowLog goroutines ever started
MaxHistory == 2      \* lines written to the file while no worker is tailing it
MaxLiveLines == 1    \* lines ever written to the log file in the fair runs

Workers == 1..MaxWorkers

\* ------------------------------------------------------------ the lines
LTime == "# Time: 2024-01-01T10:00:00"
LUserHost == "# User@Host: app[app] @ 10.0.0.5"
LQuery15 == "# Query_time: 1.5  Lock_time: 0.1  Rows_sent: 3  Rows_examined: 500"
LQuery03 == "# Query_time: 0.3  Lock_time: 0.004  Rows_sent: 1  Rows_examined: 20"
LSchema == "# Schema: orders"
LSelect == "SELECT * FROM orders;"
LBlank == ""
\* further lines, given to processSlowQuery directly
LUserHost2 == "# User@Host: root[root] @ localhost"
LSchema2 == "# Schema: billing"
LUpdate == "update orders set state = 1;"
\* a statement whose text holds the schema marker
LNote == "SELECT id FROM notes WHERE tag = '# Schema: x';"

\* the lines the server writes to the log
LineAlphabet == {LTime, LUserHost, LQuery15, LQuery03, LSchema, LSelect, LBlank}

\* the lines processSlowQuery is applied to as a function
ParseAlphabet == LineAlphabet \cup {LUserHost2, LSchema2, LUpdate, LNote}

None == <<>>

\* ^# Time: \d{4}-\d{2}-\d{2}.*$
queryStartPattern(line) == line = LTime

\* # Query_time:\s*(..)\s*Lock_time:\s*(..)\s*Rows_sent:\s*(\d+)\s*Rows_examined:\s*(\d+)
\* the four submatches, or None
queryTimePattern(line) ==
    CASE line = LQuery15 -> <<"1.5", "0.1", "3", "500">>
      [] line = LQuery03 -> <<"0.3", "0.004", "1", "20">>
      [] OTHER -> None

\* # User@Host:\s*(\S+)\s*\[\S+\]\s*@\s*(\S+) : (\S+) is greedy and backtracks
\* to leave "[app]" for the bracket group, so the user is "app"
userHostPattern(line) ==
    CASE line = LUserHost -> <<"app", "10.0.0.5">>
      [] line = LUserHost2 -> <<"root", "localhost">>
      [] OTHER -> None

\* # Schema:\s*(\S+) : not anchored, it matches anywhere in the line
databasePattern(line) ==
    CASE line = LSchema -> <<"orders">>
      [] line = LSchema2 -> <<"billing">>
      [] line = LNote -> <<"x';">>
      [] OTHER -> None

\* (?i)^(SELECT|UPDATE|DELETE|INSERT)\s+.*;$
sqlQueryEndPattern(line) == line \in {LSelect, LUpdate, LNote}

\* strconv.ParseFloat on the strings the patterns capture, in thousandths
ParseFloat(s) ==
    CASE s = "1.5" -> 1500
      [] s = "0.3" -> 300
      [] s = "0.1" -> 100
      [] s = "0.004" -> 4
      [] OTHER -> 0

\* strconv.Atoi on the strings the patterns capture
Atoi(s) ==
    CASE s = "3" -> 3
      [] s = "500" -> 500
      [] s = "1" -> 1
      [] s = "20" -> 20
      [] OTHER -> 0

\* fmt's %.2f: a time in thousandths rendered in hundredths, rounded to nearest
Fmt2(t) == (t + 5) \div 10

\* ------------------------------------------------------- processSlowQuery
\* the zero values of the eight declared variables (main.go:52-59)
ZeroEntry ==
    [queryTime |-> 0, lockTime |-> 0, rowsSent |-> 0, rowsExamined |-> 0,
     database |-> "", user |-> "", host |-> "", sqlQuery |-> ""]

\* mutant: a variable that already holds a value is not assigned again
ScanLineKeepFirst(e, line) ==
    LET qt == queryTimePattern(line)
        uh == userHostPattern(line)
        db == databasePattern(line)
        e1 == IF qt # None /\ e.queryTime = 0 /\ e.rowsExamined = 0
              THEN [e EXCEPT !.queryTime = ParseFloat(qt[1]),
                             !.lockTime = ParseFloat(qt[2]),
                             !.rowsSent = Atoi(qt[3]),
                             !.rowsExamined = Atoi(qt[4])]
              ELSE e
        e2 == IF uh # None /\ e.user = ""
              THEN [e1 EXCEPT !.user = uh[1], !.host = uh[2]]
              ELSE e1
        e3 == IF db # None /\ e.database = ""
              THEN [e2 EXCEPT !.database = db[1]]
              ELSE e2
    IN  IF sqlQueryEndPattern(line) /\ e.sqlQuery = ""
        THEN [e3 EXCEPT !.sqlQuery = line]
        ELSE e3

\* one iteration of the range loop (main.go:62-77): every matching pattern
\* assigns its variables
ScanLine(e, line) ==
    LET qt == queryTimePattern(line)
        uh == userHostPattern(line)
        db == databasePattern(line)
        e1 == IF qt # None
              THEN [e EXCEPT !.queryTime = ParseFloat(qt[1]),
                             !.lockTime = ParseFloat(qt[2]),
                             !.rowsSent = Atoi(qt[3]),
                             !.rowsExamined = Atoi(qt[4])]
              ELSE e
        e2 == IF uh # None
              THEN [e1 EXCEPT !.user = uh[1], !.host = uh[2]]
              ELSE e1
        e3 == IF db # None THEN [e2 EXCEPT !.database = db[1]] ELSE e2
    IN  IF sqlQueryEndPattern(line) THEN [e3 EXCEPT !.sqlQuery = line] ELSE e3

\* the range loop over logLines (main.go:61-78), in order
RECURSIVE ScanLines(_, _)
ScanLines(lines, n) ==
    IF n = 0 THEN ZeroEntry ELSE ScanLine(ScanLines(lines, n - 1), lines[n])

\* an extraction that gives up on an entry lacking one of the four kinds of
\* line
ExtractFieldsAllOrNothing(lines) ==
    IF /\ \E k \in 1..Len(lines) : queryTimePattern(lines[k]) # None
       /\ \E k \in 1..Len(lines) : userHostPattern(lines[k]) # None
       /\ \E k \in 1..Len(lines) : databasePattern(lines[k]) # None
       /\ \E k \in 1..Len(lines) : sqlQueryEndPattern(lines[k])
    THEN ScanLines(lines, Len(lines))
    ELSE ZeroEntry

ExtractFields(lines) == ScanLines(lines, Len(lines))

\* mutant: the comparison made strict
IsSlowStrict(queryTime, threshold) == queryTime > threshold

\* main.go:80
IsSlow(queryTime, threshold) == queryTime >= threshold

\* the fmt.Sprintf of main.go:81-91: the values substituted into the template
NotificationContent(e) ==
    [queryTime |-> Fmt2(e.queryTime), lockTime |-> Fmt2(e.lockTime),
     database |-> e.database, host |-> e.host, user |-> e.user,
     rowsSent |-> e.rowsSent, rowsExamined |-> e.rowsExamined,
     sqlQuery |-> e.sqlQuery]

\* the text of the lines at the positions pos of the file f
TextOf(f, pos) == [i \in 1..Len(pos) |-> f[pos[i]]]

\* a dispatch that posts the message a second time when the POST fails
sendWebhookNotificationRetry(notifs, failed, msg, outs) ==
    <<IF Head(outs) THEN Append(notifs, msg)
      ELSE Append(Append(notifs, msg), msg),
      failed \/ ~Head(outs),
      Tail(outs)>>

\* a dispatch that overtakes the dispatches made before it
sendWebhookNotificationOvertaking(notifs, failed, msg, outs) ==
    <<<<msg>> \o notifs,
      failed \/ ~Head(outs),
      Tail(outs)>>

\* sendWebhookNotification (main.go:28-47): one POST of the message msg.
\* outs lists the outcomes of the POSTs still to come, TRUE for a POST that
\* returns without error; an error is printed and nothing else is done.
\* The result is <<notifications, postFailed, outs>>
sendWebhookNotification(notifs, failed, msg, outs) ==
    <<Append(notifs, msg),
      failed \/ ~Head(outs),
      Tail(outs)>>

\* processSlowQuery(logLines) called by worker w on the positions pos.
\* st = <<calls, notifications, postFailed, outs>>, before and after the call
processSlowQuery(st, w, pos, f, threshold) ==
    LET e == ExtractFields(TextOf(f, pos))
        c == Append(st[1], [w |-> w, lines |-> pos, entry |-> e])
    IN  IF IsSlow(e.queryTime, threshold)
        THEN <<c>> \o sendWebhookNotification(st[2], st[3],
                          [call |-> Len(c), w |-> w,
                           content |-> NotificationContent(e)], st[4])
        ELSE <<c>> \o Tail(st)

\* `if cond { processSlowQuery(logLines) }` with logLines the positions pos
processIf(cond, st, w, pos, f, threshold) ==
    IF cond THEN processSlowQuery(st, w, pos, f, threshold) ELSE st

\* the loop body without the `continue` on an empty line
HandleLineKeepBlank(st, w, buf, p, f, threshold) ==
    LET text == f[p]
        st1 == processIf(queryStartPattern(text) /\ Len(buf) > 0,
                         st, w, buf, f, threshold)
        buf1 == IF queryStartPattern(text) THEN <<p>> ELSE Append(buf, p)
        st2 == processIf(sqlQueryEndPattern(text), st1, w, buf1, f, threshold)
        buf2 == IF sqlQueryEndPattern(text) THEN <<>> ELSE buf1
        st3 == processIf(Len(buf2) > 0, st2, w, buf2, f, threshold)
    IN  <<buf2>> \o SubSeq(st3, 1, 3)

\* the loop body without main.go:136-138
HandleLineNoFlush(st, w, buf, p, f, threshold) ==
    LET text == f[p]
        st1 == processIf(queryStartPattern(text) /\ Len(buf) > 0,
                         st, w, buf, f, threshold)
        buf1 == IF queryStartPattern(text) THEN <<p>> ELSE Append(buf, p)
        st2 == processIf(sqlQueryEndPattern(text), st1, w, buf1, f, threshold)
        buf2 == IF sqlQueryEndPattern(text) THEN <<>> ELSE buf1
    IN  IF text = "" THEN <<buf>> \o SubSeq(st, 1, 3)
        ELSE <<buf2>> \o SubSeq(st2, 1, 3)

\* the loop body without the reset of main.go:132
HandleLineNoReset(st, w, buf, p, f, threshold) ==
    LET text == f[p]
        st1 == processIf(queryStartPattern(text) /\ Len(buf) > 0,
                         st, w, buf, f, threshold)
        buf1 == IF queryStartPattern(text) THEN <<p>> ELSE Append(buf, p)
        st2 == processIf(sqlQueryEndPattern(text), st1, w, buf1, f, threshold)
        st3 == processIf(Len(buf1) > 0, st2, w, buf1, f, threshold)
    IN  IF text = "" THEN <<buf>> \o SubSeq(st, 1, 3)
        ELSE <<buf1>> \o SubSeq(st3, 1, 3)

\* ------------------------------------------------------------ tailSlowLog
\* the body of `for line := range t.Lines` (main.go:115-139) for the line at
\* position p, run by worker w with pending buffer buf.
\* st = <<calls, notifications, postFailed, outs>>; the result is
\* <<logLines, calls, notifications, postFailed>>
HandleLine(st, w, buf, p, f, threshold) ==
    LET text == f[p]
        \* main.go:121-128
        st1 == processIf(queryStartPattern(text) /\ Len(buf) > 0,
                         st, w, buf, f, threshold)
        buf1 == IF queryStartPattern(text) THEN <<p>> ELSE Append(buf, p)
        \* main.go:130-133
        st2 == processIf(sqlQueryEndPattern(text), st1, w, buf1, f, threshold)
        buf2 == IF sqlQueryEndPattern(text) THEN <<>> ELSE buf1
        \* main.go:136-138, inside the loop
        st3 == processIf(Len(buf2) > 0, st2, w, buf2, f, threshold)
    IN  IF text = "" THEN <<buf>> \o SubSeq(st, 1, 3)       \* main.go:117-119
        ELSE <<buf2>> \o SubSeq(st3, 1, 3)

\* the range loop run from an empty buffer over the first n lines of f, every
\* POST succeeding: <<logLines, calls, notifications, postFailed>>
RECURSIVE Segment(_, _, _)
Segment(f, n, threshold) ==
    IF n = 0 THEN <<<<>>, <<>>, <<>>, FALSE>>
    ELSE LET s == Segment(f, n - 1, threshold)
         IN  HandleLine(<<s[2], s[3], FALSE, <<TRUE, TRUE, TRUE>>>>, 1, s[1], n, f,
                        threshold)

\* an iteration of the loop makes at most three processSlowQuery calls
AllOk == <<TRUE, TRUE, TRUE>>

\* the POSTs the iteration for the line at position p makes
Posts(w, buf, p, f, threshold) ==
    Len(HandleLine(<<<<>>, <<>>, FALSE, AllOk>>, w, buf, p, f, threshold)[3])

\* tail.TailFile (main.go:102-112).  MustExist: a missing file is an error and
\* the worker goes on to signal the supervisor.  The Config sets no Location,
\* so the tail delivers the file from its first line, whatever readHistory is.
TailStart(w) == 0

\* mutant: on a failed open the worker returns without sending on restart
WorkerOpenNoSignal(w) ==
    /\ wpc[w] = "open"
    /\ IF fileExists
       THEN /\ wpc' = [wpc EXCEPT ![w] = "loop"]
            /\ opened' = [opened EXCEPT ![w] = TRUE]
            /\ histLen' = [histLen EXCEPT ![w] = Len(file)]
            /\ offset' = [offset EXCEPT ![w] = TailStart(w)]
       ELSE /\ wpc' = [wpc EXCEPT ![w] = "done"]
            /\ UNCHANGED <<opened, histLen, offset>>
    /\ UNCHANGED <<webhookURL, slowQueryThreshold, isTest, readHistory, mpc,
                   logLines, fileExists, file, budget, calls, notifications, postFailed>>

WorkerOpen(w) ==
    /\ wpc[w] = "open"
    /\ IF fileExists
       THEN /\ wpc' = [wpc EXCEPT ![w] = "loop"]
            /\ opened' = [opened EXCEPT ![w] = TRUE]
            /\ histLen' = [histLen EXCEPT ![w] = Len(file)]
            /\ offset' = [offset EXCEPT ![w] = TailStart(w)]
       ELSE /\ wpc' = [wpc EXCEPT ![w] = "send"]
            /\ UNCHANGED <<opened, histLen, offset>>
    /\ UNCHANGED <<webhookURL, slowQueryThreshold, isTest, readHistory, mpc,
                   logLines, fileExists, file, budget, calls, notifications, postFailed>>

\* worker w goes on to the next iteration with r = <<logLines, calls,
\* notifications, postFailed>>, the state the iteration ends in
Continue(w, r) ==
    /\ logLines' = [logLines EXCEPT ![w] = r[1]]
    /\ calls' = r[2]
    /\ notifications' = r[3]
    /\ postFailed' = r[4]

\* an iteration working on a buffer that is not local to tailSlowLog but one
\* package-level variable
ReadLineSharedBuffer(w) ==
    /\ wpc[w] = "loop"
    /\ offset[w] < Len(file)
    /\ \E outs \in [1..Posts(w, logLines[1], offset[w] + 1, file,
                              slowQueryThreshold) -> BOOLEAN] :
          LET r == HandleLine(<<calls, notifications, postFailed, outs>>, w,
                              logLines[1], offset[w] + 1, file,
                              slowQueryThreshold)
          IN  /\ logLines' = [v \in Workers |-> r[1]]
              /\ calls' = r[2]
              /\ notifications' = r[3]
              /\ postFailed' = r[4]
    /\ offset' = [offset EXCEPT ![w] = offset[w] + 1]
    /\ UNCHANGED <<webhookURL, slowQueryThreshold, isTest, readHistory, mpc,
                   wpc, opened, histLen, fileExists, file, budget>>

\* one iteration of the range loop: the tail delivers the next line
ReadLine(w) ==
    /\ wpc[w] = "loop"
    /\ offset[w] < Len(file)
    /\ \E outs \in [1..Posts(w, logLines[w], offset[w] + 1, file,
                              slowQueryThreshold) -> BOOLEAN] :
          Continue(w, HandleLine(<<calls, notifications, postFailed, outs>>, w,
                                 logLines[w], offset[w] + 1, file,
                                 slowQueryThreshold))
    /\ offset' = [offset EXCEPT ![w] = offset[w] + 1]
    /\ UNCHANGED <<webhookURL, slowQueryThreshold, isTest, readHistory, mpc,
                   wpc, opened, histLen, fileExists, file, budget>>

\* the tail dies on a read error and closes t.Lines: the range loop ends and
\* tailSlowLog returns (main.go:139-140) without sending on restart
StreamEnd(w) ==
    /\ wpc[w] = "loop"
    /\ offset[w] = Len(file)
    /\ wpc' = [wpc EXCEPT ![w] = "done"]
    /\ UNCHANGED <<webhookURL, slowQueryThreshold, isTest, readHistory, mpc,
                   opened, histLen, offset, logLines, fileExists, file, budget, calls,
                   notifications, postFailed>>

\* ------------------------------------------------------------------- main
\* a main that goes on to the loop whatever the URL is
MainCheckNoExit ==
    /\ mpc = "check"
    /\ mpc' = "spawn"
    /\ UNCHANGED <<webhookURL, slowQueryThreshold, isTest, readHistory, wpc,
                   opened, histLen, offset, logLines, fileExists, file, budget, calls,
                   notifications, postFailed>>

\* main.go:150-159
MainCheck ==
    /\ mpc = "check"
    /\ mpc' = IF webhookURL = "" THEN "exit" ELSE "spawn"
    /\ UNCHANGED <<webhookURL, slowQueryThreshold, isTest, readHistory, wpc,
                   opened, histLen, offset, logLines, fileExists, file, budget, calls,
                   notifications, postFailed>>

\* a main that starts the next worker without waiting on restart
MainSpawnNoWait ==
    /\ mpc = "spawn"
    /\ \E w \in Workers :
          /\ wpc[w] = "none"
          /\ \A v \in Workers : v < w => wpc[v] # "none"
          /\ wpc' = [wpc EXCEPT ![w] = "open"]
    /\ mpc' = "spawn"
    /\ UNCHANGED <<webhookURL, slowQueryThreshold, isTest, readHistory, opened,
                   histLen, offset, logLines, fileExists, file, budget, calls,
                   notifications, postFailed>>

\* main.go:165-166: wg.Add(1); go tailSlowLog(&wg, restart)
MainSpawn ==
    /\ mpc = "spawn"
    /\ \E w \in Workers :
          /\ wpc[w] = "none"
          /\ \A v \in Workers : v < w => wpc[v] # "none"
          /\ wpc' = [wpc EXCEPT ![w] = "open"]
    /\ mpc' = "select"
    /\ UNCHANGED <<webhookURL, slowQueryThreshold, isTest, readHistory, opened,
                   histLen, offset, logLines, fileExists, file, budget, calls,
                   notifications, postFailed>>

\* the unbuffered channel: `restart <- true` (main.go:110) meets `<-restart`
\* (main.go:168); the worker returns, main loops (main.go:164)
RestartHandshake(w) ==
    /\ wpc[w] = "send"
    /\ mpc = "select"
    /\ wpc' = [wpc EXCEPT ![w] = "done"]
    /\ mpc' = "spawn"
    /\ UNCHANGED <<webhookURL, slowQueryThreshold, isTest, readHistory, opened,
                   histLen, offset, logLines, fileExists, file, budget, calls,
                   notifications, postFailed>>

\* ------------------------------------------------------- the environment
NoneOpened == \A w \in Workers : ~opened[w]
CaughtUp == \E w \in Workers : wpc[w] = "loop" /\ offset[w] = Len(file)

\* the server appends a line to the slow log
AppendLine(l) ==
    /\ fileExists
    /\ budget > 0
    /\ \/ NoneOpened /\ Len(file) < MaxHistory
       \/ CaughtUp
    /\ file' = Append(file, l)
    /\ budget' = budget - 1
    /\ UNCHANGED <<webhookURL, slowQueryThreshold, isTest, readHistory, mpc,
                   wpc, opened, histLen, offset, logLines, fileExists, calls,
                   notifications, postFailed>>

\* the log file appears (empty)
CreateFile ==
    /\ ~fileExists
    /\ fileExists' = TRUE
    /\ file' = <<>>
    /\ UNCHANGED <<webhookURL, slowQueryThreshold, isTest, readHistory, mpc,
                   wpc, opened, histLen, offset, logLines, budget, calls,
                   notifications, postFailed>>

\* the log file is removed before any worker has opened it
RemoveFile ==
    /\ fileExists
    /\ NoneOpened
    /\ fileExists' = FALSE
    /\ file' = <<>>
    /\ UNCHANGED <<webhookURL, slowQueryThreshold, isTest, readHistory, mpc,
                   wpc, opened, histLen, offset, logLines, budget, calls,
                   notifications, postFailed>>

\* ------------------------------------------------------------ the system
URL == "https://hook.example/send?key=k"

\* the default of the -s flag (main.go:145), in thousandths of a second
DefaultThreshold == 500

\* the command lines the model starts from: pflag.Parse (main.go:143-148)
Configs ==
    { [url |-> "",  thr |-> DefaultThreshold,  test |-> FALSE, hist |-> FALSE],
      [url |-> "",  thr |-> 0,    test |-> TRUE,  hist |-> TRUE],
      [url |-> URL, thr |-> DefaultThreshold,  test |-> FALSE, hist |-> FALSE],
      [url |-> URL, thr |-> 0,    test |-> FALSE, hist |-> TRUE],
      [url |-> URL, thr |-> 1500, test |-> TRUE,  hist |-> FALSE] }

Flags ==
    \E c \in Configs :
        /\ webhookURL = c.url
        /\ slowQueryThreshold = c.thr
        /\ isTest = c.test
        /\ readHistory = c.hist

\* main is about to check the flags, no goroutine is started, nothing has
\* been parsed or sent
Idle ==
    /\ mpc = "check"
    /\ wpc = [w \in Workers |-> "none"]
    /\ opened = [w \in Workers |-> FALSE]
    /\ histLen = [w \in Workers |-> 0]
    /\ offset = [w \in Workers |-> 0]
    /\ logLines = [w \in Workers |-> <<>>]
    /\ calls = <<>>
    /\ notifications = <<>>
    /\ postFailed = FALSE

Start ==
    /\ Flags
    /\ Idle
    /\ fileExists \in BOOLEAN
    /\ file = <<>>

Init == Start /\ budget = MaxLines

Next ==
    \/ MainCheck
    \/ MainSpawn
    \/ \E w \in Workers : WorkerOpen(w)
    \/ \E w \in Workers : ReadLine(w)
    \/ \E w \in Workers : StreamEnd(w)
    \/ \E w \in Workers : RestartHandshake(w)
    \/ \E l \in LineAlphabet : AppendLine(l)
    \/ CreateFile
    \/ RemoveFile

Spec == Init /\ [][Next]_vars

\* the Go scheduler runs every runnable goroutine: main and the workers take
\* their steps; the environment (the server, the file system) owes nothing
InitLive == Start /\ budget = MaxLiveLines

ProgramStep ==
    \/ MainCheck
    \/ MainSpawn
    \/ \E w \in Workers : WorkerOpen(w)
    \/ \E w \in Workers : ReadLine(w)
    \/ \E w \in Workers : RestartHandshake(w)

Fairness == WF_vars(ProgramStep)

FairSpec == InitLive /\ [][Next]_vars /\ Fairness

\* the five-line entry of the concrete scenario, and the runs that may write
\* as many lines as one such entry has
Scenario == <<LTime, LUserHost, LQuery15, LSchema, LSelect>>

InitEntry == Start /\ budget = Len(Scenario)

EntrySpec == InitEntry /\ [][Next]_vars

\* processSlowQuery as a function: it is applied once, by the harness below,
\* to a list of lines drawn from ParseAlphabet, under each command line that
\* gets main past the check of the URL
MaxParseLen == 4

ParseInputs == UNION {[1..n -> ParseAlphabet] : n \in 1..MaxParseLen}

InitParse ==
    /\ Flags
    /\ webhookURL # ""
    /\ Idle
    /\ fileExists = TRUE
    /\ file \in ParseInputs
    /\ budget = 0

\* processSlowQuery returns with r = <<calls, notifications, postFailed, outs>>
Return(r) ==
    /\ calls' = r[1]
    /\ notifications' = r[2]
    /\ postFailed' = r[3]

\* processSlowQuery(logLines) with logLines the whole list (main.go:50-96)
ParseCall ==
    /\ calls = <<>>
    /\ \E ok \in BOOLEAN :
          Return(processSlowQuery(<<calls, notifications, postFailed, <<ok>>>>,
                                  1, [i \in 1..Len(file) |-> i], file,
                                  slowQueryThreshold))
    /\ UNCHANGED <<webhookURL, slowQueryThreshold, isTest, readHistory, mpc,
                   wpc, opened, histLen, offset, logLines, fileExists, file,
                   budget>>

ParseSpec == InitParse /\ [][ParseCall]_vars

\* tailSlowLog run once by each worker over the same lines, one run after the
\* other: every worker starts at the top of the loop with its own
\* `var logLines` (main.go:114) and the file holds a fixed list of lines
MaxRunLen == 3

RunInputs == UNION {[1..n -> LineAlphabet] : n \in 1..MaxRunLen}

InitRerun ==
    /\ Flags
    /\ webhookURL # ""
    /\ mpc = "select"
    /\ wpc = [w \in Workers |-> "loop"]
    /\ opened = [w \in Workers |-> TRUE]
    /\ histLen = [w \in Workers |-> 0]
    /\ offset = [w \in Workers |-> TailStart(w)]
    /\ logLines = [w \in Workers |-> <<>>]
    /\ calls = <<>>
    /\ notifications = <<>>
    /\ postFailed = FALSE
    /\ fileExists = TRUE
    /\ file \in RunInputs
    /\ budget = 0

\* the run of worker w goes on once the runs before it are through
RerunStep(w) ==
    /\ \A v \in Workers : v < w => offset[v] = Len(file)
    /\ ReadLine(w)

RerunSpec == InitRerun /\ [][\E w \in Workers : RerunStep(w)]_vars

\* ================================================================ claims
\* positions of the file that some processSlowQuery call was given
Range(seq) == {seq[i] : i \in 1..Len(seq)}
CallsOf(w) == {i \in 1..Len(calls) : calls[i].w = w}
NotifiedFor(i) == {j \in 1..Len(notifications) : notifications[j].call = i}
IsTiming(line) == queryTimePattern(line) # None
QueryTimeOf(line) == ParseFloat(queryTimePattern(line)[1])

\* ---------------------------------------------------------------- C1
WellFormedEntries ==
    {<<LTime, LUserHost, q, LSchema, LSelect>> : q \in {LQuery15, LQuery03}}

C1_Expected(q) ==
    IF q = LQuery15
    THEN [queryTime |-> 150, lockTime |-> 10, database |-> "orders",
          host |-> "10.0.0.5", user |-> "app", rowsSent |-> 3,
          rowsExamined |-> 500, sqlQuery |-> LSelect]
    ELSE [queryTime |-> 30, lockTime |-> 0, database |-> "orders",
          host |-> "10.0.0.5", user |-> "app", rowsSent |-> 1,
          rowsExamined |-> 20, sqlQuery |-> LSelect]

\* C1: in a run with the threshold 0.5 of the concrete scenario, once a worker
\* has read a whole well-formed entry (Time, User@Host, Query_time, Schema,
\* statement) whose query time is at or above the threshold, the run has made
\* exactly one notification call, and its content carries all the fields of
\* the entry.
C1_OneNotificationPerEntry ==
    \A w \in Workers :
        (/\ opened[w]
         /\ slowQueryThreshold = DefaultThreshold
         /\ file \in WellFormedEntries
         /\ offset[w] = Len(file)
         /\ QueryTimeOf(file[3]) >= slowQueryThreshold)
        => /\ Len(notifications) = 1
           /\ notifications[1].content = C1_Expected(file[3])

\* ---------------------------------------------------------------- C2
\* C2: every processSlowQuery call is followed by exactly one notification
\* when its parsed query time is at or above the threshold and by none when it
\* is below; and while every timing line written carries a query time below a
\* positive threshold, no notification has been made at all.
C2_NotifyIffAtOrAboveThreshold ==
    /\ \A j \in 1..Len(notifications) : notifications[j].call \in 1..Len(calls)
    /\ \A i \in 1..Len(calls) :
          Cardinality(NotifiedFor(i)) =
              IF calls[i].entry.queryTime >= slowQueryThreshold THEN 1 ELSE 0
    /\ (/\ slowQueryThreshold > 0
        /\ \A p \in 1..Len(file) :
              IsTiming(file[p]) => QueryTimeOf(file[p]) < slowQueryThreshold)
       => notifications = <<>>

\* a call whose query time equals a positive threshold was notified, and a
\* call below the threshold was made
C2_Witness ==
    /\ slowQueryThreshold > 0
    /\ \E i \in 1..Len(calls) :
          /\ calls[i].entry.queryTime = slowQueryThreshold
          /\ NotifiedFor(i) # {}
    /\ \E i \in 1..Len(calls) :
          /\ \E k \in 1..Len(calls[i].lines) : IsTiming(file[calls[i].lines[k]])
          /\ calls[i].entry.queryTime < slowQueryThreshold

\* ---------------------------------------------------------------- C3
\* a call is closed by a boundary: its last line is a terminal statement, or
\* the line after its last line is a start marker that has been read
ClosedByBoundary(i) ==
    LET last == calls[i].lines[Len(calls[i].lines)]
    IN  \/ sqlQueryEndPattern(file[last])
        \/ /\ last < Len(file)
           /\ queryStartPattern(file[last + 1])
           /\ offset[calls[i].w] > last

\* C3: segmentation partitions the stream: no line is given to more than one
\* processSlowQuery call, every call is made at a closing boundary, and every
\* non-blank line a worker has read is in one call or in the pending buffer.
C3_EachLineInOneCall ==
    /\ \A i, j \in 1..Len(calls) :
          i # j => Range(calls[i].lines) \cap Range(calls[j].lines) = {}
    /\ \A i \in 1..Len(calls) : ClosedByBoundary(i)
    /\ \A w \in Workers : \A p \in 1..offset[w] :
          (opened[w] /\ file[p] # "")
          => \/ p \in Range(logLines[w])
             \/ \E i \in CallsOf(w) : p \in Range(calls[i].lines)

\* ---------------------------------------------------------------- C4
\* C4: the supervisor never waits on the restart channel while every worker
\* it has started has returned.
C4_SupervisorNeverStranded ==
    ~(/\ mpc = "select"
      /\ \A w \in Workers : wpc[w] \in {"none", "done"})

\* ---------------------------------------------------------------- C5
\* worker w found the file missing: it is about to signal, or has signalled
OpenFailed(w) == ~opened[w] /\ wpc[w] \in {"send", "done"}

\* a worker that failed to open the file has not got its signal through yet,
\* or the supervisor has not started the next worker yet (while the model
\* has one left to start)
Unserved ==
    \E w \in Workers :
        /\ OpenFailed(w)
        /\ \/ wpc[w] # "done"
           \/ w < MaxWorkers /\ wpc[w + 1] = "none"

\* a worker is about to open the file and the file is there
Openable == fileExists /\ \E w \in Workers : wpc[w] = "open"

\* C5: a failed open never ends the process; every worker that failed gets
\* its signal through to the supervisor, which then starts the next worker;
\* and a worker that finds the file present enters the line loop, unless the
\* file goes away first.
C5_OpenFailureRestarts ==
    /\ [](webhookURL # "" => mpc # "exit")
    /\ Unserved ~> ~Unserved
    /\ Openable ~> (~fileExists \/ \E w \in Workers : wpc[w] = "loop")

\* the first worker failed to open the file and returned, the second worker
\* is in the line loop
C5_Witness ==
    /\ OpenFailed(1)
    /\ wpc[1] = "done"
    /\ wpc[2] = "loop"

\* ---------------------------------------------------------------- C6
\* C6: a worker started by a supervisor restart begins at the end of the
\* file, whatever readHistory is: it is given no line the file held when it
\* opened it, and no line is given to the parser by two different workers.
C6_RestartStartsAtEnd ==
    /\ \A w \in Workers :
          (w > 1 /\ opened[w]) =>
              /\ offset[w] >= histLen[w]
              /\ \A i \in CallsOf(w) : \A p \in Range(calls[i].lines) :
                    p > histLen[w]
    /\ \A i, j \in 1..Len(calls) :
          calls[i].w # calls[j].w
          => Range(calls[i].lines) \cap Range(calls[j].lines) = {}

\* ---------------------------------------------------------------- C7
\* C7: with readHistory false a worker begins at the end of the file and no
\* line the file held before it opened is given to the parser or notified;
\* with readHistory true the lines the file held are replayed.
C7_StartFollowsReadHistory ==
    \A w \in Workers :
        opened[w] =>
            IF readHistory
            THEN \A p \in 1..histLen[w] :
                    (offset[w] >= p /\ file[p] # "")
                    => \/ p \in Range(logLines[w])
                       \/ \E i \in CallsOf(w) : p \in Range(calls[i].lines)
            ELSE /\ offset[w] >= histLen[w]
                 /\ \A i \in CallsOf(w) : \A p \in Range(calls[i].lines) :
                       p > histLen[w]

\* ---------------------------------------------------------------- C8
\* the sample message of the test mode
C8_SamplePayload ==
    [queryTime |-> 50, lockTime |-> 50, database |-> "database",
     user |-> "user", sqlQuery |-> "select * from table", rowsSent |-> 1,
     rowsExamined |-> 10000]

\* C8: with the test flag and a webhook URL, no worker is ever started, main
\* never enters the supervisor loop, and when main has exited exactly one
\* notification, the sample message, has been sent.
C8_TestModeSendsOnceAndExits ==
    (isTest /\ webhookURL # "") =>
        /\ \A w \in Workers : wpc[w] = "none"
        /\ mpc \in {"check", "exit"}
        /\ mpc = "exit" =>
              /\ Len(notifications) = 1
              /\ notifications[1].content = C8_SamplePayload

\* ---------------------------------------------------------------- C9
\* C9: every processSlowQuery call is given at least one timing line, and so
\* is every call a notification was sent for, whatever the threshold.
C9_OnlyEntriesWithTimingLine ==
    /\ \A i \in 1..Len(calls) :
          \E p \in Range(calls[i].lines) : IsTiming(file[p])
    /\ \A j \in 1..Len(notifications) :
          \E p \in Range(calls[notifications[j].call].lines) : IsTiming(file[p])

\* ---------------------------------------------------------------- C10
\* the lines of txt the timing, identity, schema and statement patterns match
TimingAt(txt) == {k \in 1..Len(txt) : queryTimePattern(txt[k]) # None}
IdentityAt(txt) == {k \in 1..Len(txt) : userHostPattern(txt[k]) # None}
SchemaAt(txt) == {k \in 1..Len(txt) : databasePattern(txt[k]) # None}
StatementAt(txt) == {k \in 1..Len(txt) : sqlQueryEndPattern(txt[k])}
First(S) == CHOOSE k \in S : \A m \in S : k <= m
Last(S) == CHOOSE k \in S : \A m \in S : k >= m

\* the fields of e are those of the lines of txt at the positions the
\* selector pick chooses among the matching ones, or the zero values
FieldsFrom(e, txt, pick(_)) ==
    /\ IF TimingAt(txt) = {}
       THEN /\ e.queryTime = 0 /\ e.lockTime = 0
            /\ e.rowsSent = 0 /\ e.rowsExamined = 0
       ELSE LET m == queryTimePattern(txt[pick(TimingAt(txt))])
            IN  /\ e.queryTime = ParseFloat(m[1])
                /\ e.lockTime = ParseFloat(m[2])
                /\ e.rowsSent = Atoi(m[3])
                /\ e.rowsExamined = Atoi(m[4])
    /\ IF IdentityAt(txt) = {}
       THEN e.user = "" /\ e.host = ""
       ELSE LET m == userHostPattern(txt[pick(IdentityAt(txt))])
            IN  e.user = m[1] /\ e.host = m[2]
    /\ IF SchemaAt(txt) = {}
       THEN e.database = ""
       ELSE e.database = databasePattern(txt[pick(SchemaAt(txt))])[1]
    /\ IF StatementAt(txt) = {}
       THEN e.sqlQuery = ""
       ELSE e.sqlQuery = txt[pick(StatementAt(txt))]

\* C10 as stated: every parsed field is taken from the first line, in order,
\* that matches its extractor; later matching lines are ignored.
C10_FirstMatchWins ==
    \A i \in 1..Len(calls) :
        FieldsFrom(calls[i].entry, TextOf(file, calls[i].lines), First)

\* C10 as amended: every parsed field is taken from the last line, in order,
\* that matches its extractor (each later match overwrites the earlier one),
\* and keeps its zero value when no line matches.
C10_LastMatchWins ==
    \A i \in 1..Len(calls) :
        FieldsFrom(calls[i].entry, TextOf(file, calls[i].lines), Last)

\* a call was given two timing lines with different values, two identity
\* lines, two schema lines and two statement lines
C10_Witness ==
    /\ \E i \in 1..Len(calls) :
          LET txt == TextOf(file, calls[i].lines)
          IN  /\ Cardinality(TimingAt(txt)) = 2
              /\ txt[First(TimingAt(txt))] # txt[Last(TimingAt(txt))]
    /\ \E i \in 1..Len(calls) :
          LET txt == TextOf(file, calls[i].lines)
          IN  /\ Cardinality(IdentityAt(txt)) = 2
              /\ txt[First(IdentityAt(txt))] # txt[Last(IdentityAt(txt))]

\* ------------------------------------------------------------------ C11
\* the worker w takes one line from the tail in this step
Reads(w) == offset'[w] = offset[w] + 1

\* the iteration of worker w as it goes when every POST succeeds
IfAllOk(w) ==
    HandleLine(<<calls, notifications, FALSE, AllOk>>, w, logLines[w],
               offset[w] + 1, file, slowQueryThreshold)

\* C11: a POST that fails is made once and not again, it neither stops nor
\* restarts the worker, and the iteration in which it fails, like every
\* iteration after it, leaves the pending buffer, the parser calls and the
\* dispatches exactly as they are when every POST succeeds
C11_FailedDispatchChangesNothing ==
    [][\A w \in Workers :
          Reads(w) /\ postFailed'
          => /\ logLines'[w] = IfAllOk(w)[1]
             /\ calls' = IfAllOk(w)[2]
             /\ notifications' = IfAllOk(w)[3]
             /\ wpc' = wpc
             /\ mpc' = mpc]_vars

\* a POST has failed and the worker, still in the loop, has dispatched at
\* least two notifications
C11_Witness ==
    /\ postFailed
    /\ \E w \in Workers :
          /\ wpc[w] = "loop"
          /\ Cardinality({j \in 1..Len(notifications) :
                             notifications[j].w = w}) >= 2

\* ------------------------------------------------------------------ C12
\* the stream positions of the first and of the last line of the buffer the
\* j-th dispatched notification was made for
FirstLineOf(j) == calls[notifications[j].call].lines[1]
LastLineOf(j) ==
    LET pos == calls[notifications[j].call].lines IN pos[Len(pos)]

\* C12: notifications are dispatched in stream order: a notification
\* dispatched after another one was made by a later parser call, of the same
\* or a later worker, for a buffer that neither starts nor ends earlier in
\* the stream
C12_DispatchedInStreamOrder ==
    \A j, k \in 1..Len(notifications) :
        j < k => /\ notifications[j].call < notifications[k].call
                 /\ notifications[j].w <= notifications[k].w
                 /\ FirstLineOf(j) <= FirstLineOf(k)
                 /\ LastLineOf(j) <= LastLineOf(k)

\* two notifications were dispatched for entries closed at different
\* positions of the stream
C12_Witness ==
    \E j, k \in 1..Len(notifications) :
        /\ FirstLineOf(j) < FirstLineOf(k)
        /\ LastLineOf(j) < FirstLineOf(k)

\* ------------------------------------------------------------------ C13
NotBlank(line) == line # ""
\* the lines worker w has read, and the same lines without the empty ones
ReadBy(w) == SubSeq(file, 1, offset[w])
NonBlankReadBy(w) == SelectSeq(ReadBy(w), NotBlank)

\* what the parser was called on and what was dispatched, in order
CallTexts(cs, f) == [i \in 1..Len(cs) |-> TextOf(f, cs[i].lines)]
Dispatches(ns) == [j \in 1..Len(ns) |-> <<ns[j].call, ns[j].content>>]
CallsBy(w) == SelectSeq(calls, LAMBDA c : c.w = w)
DispatchesBy(w) == SelectSeq(notifications, LAMBDA m : m.w = w)

\* C13: empty lines are inert: the pending buffer, the parser calls and the
\* notifications of a worker are those the loop produces on the lines the
\* worker has read with the empty lines taken out, so reading an empty line
\* changes none of them and an empty line is never a boundary
C13_BlankLinesInert ==
    \A w \in Workers :
        wpc[w] \in {"loop", "done"}
        => LET g == NonBlankReadBy(w)
               s == Segment(g, Len(g), slowQueryThreshold)
           IN  /\ TextOf(file, logLines[w]) = TextOf(g, s[1])
               /\ CallTexts(CallsBy(w), file) = CallTexts(s[2], g)
               /\ Dispatches(DispatchesBy(w)) = Dispatches(s[3])

\* a worker has read an empty line in the middle of an entry and has called
\* the parser on the lines around it
C13_Witness ==
    \E w \in Workers : \E p \in 2..offset[w] - 1 :
        /\ file[p] = ""
        /\ \E i \in 1..Len(calls) :
              /\ calls[i].w = w
              /\ \E a, b \in Range(calls[i].lines) : a < p /\ p < b

\* ------------------------------------------------------------------ C14
Extractors == {"timing", "identity", "schema", "statement"}

\* the lines an extractor matches and the variables it assigns
Matches(x, line) ==
    CASE x = "timing" -> queryTimePattern(line) # None
      [] x = "identity" -> userHostPattern(line) # None
      [] x = "schema" -> databasePattern(line) # None
      [] x = "statement" -> sqlQueryEndPattern(line)

FieldsOf(x) ==
    CASE x = "timing" -> {"queryTime", "lockTime", "rowsSent", "rowsExamined"}
      [] x = "identity" -> {"user", "host"}
      [] x = "schema" -> {"database"}
      [] x = "statement" -> {"sqlQuery"}

\* txt without the lines extractor x matches
Without(txt, x) == SelectSeq(txt, LAMBDA l : ~Matches(x, l))

\* C14 as stated: taking the lines one extractor matches out of an entry
\* sets that extractor's fields to their zero values and leaves every other
\* parsed field as it was
C14_RemovalTouchesOneExtractor ==
    \A i \in 1..Len(calls) : \A x \in Extractors :
        LET txt == TextOf(file, calls[i].lines)
            e == ExtractFields(Without(txt, x))
        IN  \A y \in Extractors : \A fld \in FieldsOf(y) :
                e[fld] = IF y = x THEN ZeroEntry[fld] ELSE calls[i].entry[fld]

\* C14 as amended: taking the lines extractor x matches out of an entry sets
\* the fields of x to their zero values and leaves the fields of every
\* extractor that matches none of the lines taken out as they were; the
\* parser call is made whatever lines are missing
C14_RemovalTouchesMatchingExtractors ==
    \A i \in 1..Len(calls) : \A x \in Extractors :
        LET txt == TextOf(file, calls[i].lines)
            e == ExtractFields(Without(txt, x))
        IN  \A y \in Extractors : \A fld \in FieldsOf(y) :
                IF y = x THEN e[fld] = ZeroEntry[fld]
                ELSE (\A k \in 1..Len(txt) :
                          ~(Matches(x, txt[k]) /\ Matches(y, txt[k])))
                     => e[fld] = calls[i].entry[fld]

\* the parser was called on an entry with a timing line, an identity line
\* and a schema line that no other extractor matches, and on an entry with
\* none of them
C14_Witness ==
    /\ \E i \in 1..Len(calls) :
          LET txt == TextOf(file, calls[i].lines)
          IN  /\ TimingAt(txt) # {} /\ IdentityAt(txt) # {}
              /\ SchemaAt(txt) # {}
              /\ SchemaAt(txt) \cap StatementAt(txt) = {}
              /\ calls[i].entry.database # ""
              /\ calls[i].entry.user # ""
              /\ calls[i].entry.queryTime # 0

\* ------------------------------------------------------------------ C15
\* the positions worker w has read that hold a line with text
ContentReadBy(w) == {p \in 1..offset[w] : file[p] # ""}

\* C15: whenever the stream of a worker stops, now or at any later moment,
\* a pending buffer that is not empty has been handed to processSlowQuery as
\* it is, by the last call the worker made, and every line with text the
\* worker has read has been in a call
C15_PendingAlreadyHandedOver ==
    \A w \in Workers :
        wpc[w] \in {"loop", "done"}
        => /\ logLines[w] # <<>>
              => /\ CallsOf(w) # {}
                 /\ calls[Last(CallsOf(w))].lines = logLines[w]
           /\ \A p \in ContentReadBy(w) :
                 \E i \in CallsOf(w) : p \in Range(calls[i].lines)

\* the stream of a worker has stopped in the middle of an entry
C15_Witness ==
    \E w \in Workers :
        /\ wpc[w] = "done"
        /\ Len(logLines[w]) >= 2
        /\ queryStartPattern(file[logLines[w][1]])

\* ------------------------------------------------------------------ C16
\* C16: with no webhook URL main never gets past the check of main.go:150:
\* it is at the check or has exited, no worker has been started, no line has
\* been read, the parser has not been called and nothing has been dispatched,
\* whatever the test flag is
C16_NoPipelineWithoutURL ==
    webhookURL = ""
    => /\ mpc \in {"check", "exit"}
       /\ \A w \in Workers :
             /\ wpc[w] = "none"
             /\ ~opened[w]
             /\ offset[w] = 0
             /\ logLines[w] = <<>>
       /\ calls = <<>>
       /\ notifications = <<>>

\* main has exited for want of a URL, with the test flag set and a log file
\* holding a slow query at hand
C16_Witness ==
    /\ webhookURL = ""
    /\ isTest
    /\ mpc = "exit"
    /\ fileExists
    /\ \E p \in 1..Len(file) :
          /\ IsTiming(file[p])
          /\ IsSlow(QueryTimeOf(file[p]), slowQueryThreshold)

\* ------------------------------------------------------------------ C17
\* what worker w called the parser on and got from it, and what it dispatched
ParsedBy(w) ==
    LET cs == CallsBy(w)
    IN  [i \in 1..Len(cs) |-> <<cs[i].lines, cs[i].entry>>]
ContentsBy(w) ==
    LET ns == DispatchesBy(w)
    IN  [j \in 1..Len(ns) |-> ns[j].content]

C18_BufferShape ==
    \A w \in Workers :
        /\ (offset[w] > 0 /\ sqlQueryEndPattern(file[offset[w]]))
           => logLines[w] = <<>>
        /\ \A k \in 1..Len(logLines[w]) :
              /\ ~sqlQueryEndPattern(file[logLines[w][k]])
              /\ queryStartPattern(file[logLines[w][k]]) => k = 1

\* a worker has just handled a terminal statement line that closed an entry
\* of several lines, the first of them a start marker
C18_Witness ==
    \E w \in Workers :
        /\ offset[w] >= 3
        /\ sqlQueryEndPattern(file[offset[w]])
        /\ logLines[w] = <<>>
        /\ \E i \in CallsOf(w) :
              /\ Len(calls[i].lines) >= 3
              /\ queryStartPattern(file[calls[i].lines[1]])
              /\ calls[i].lines[Len(calls[i].lines)] = offset[w]

\* ------------------------------------------------------------------ C19
Active == {w \in Workers : wpc[w] \in {"open", "send", "loop"}}
Started == {w \in Workers : wpc[w] # "none"}
\* the workers that are sending or have sent on restart (main.go:110)
Signalled == {w \in Workers : wpc[w] = "send" \/ (wpc[w] = "done" /\ ~opened[w])}
\* the workers whose restart signal main has received (main.go:168)
Received == {w \in Workers : wpc[w] = "done" /\ ~opened[w]}

\* C19: at most one worker is active at any time, main has started at most
\* one worker more than it has received restart signals, and a worker that
\* sends or has sent the signal has read no line, made no parser call and
\* dispatched nothing, and does none of that from then on
C19_OneWorkerAtATime ==
    /\ Cardinality(Active) <= 1
    /\ Cardinality(Started) <= Cardinality(Received) + 1
    /\ \A w \in Signalled :
          /\ offset[w] = 0
          /\ logLines[w] = <<>>
          /\ CallsOf(w) = {}
          /\ \A j \in 1..Len(notifications) : notifications[j].w # w

\* main has received the restart signal of a first worker and the worker it
\* started next is reading lines and dispatching
C19_Witness ==
    \E v, w \in Workers :
        /\ v \in Received
        /\ w # v
        /\ wpc[w] = "loop"
        /\ offset[w] > 0
        /\ \E j \in 1..Len(notifications) : notifications[j].w = w

====
